---- MODULE Spec2Model ----
(***************************************************************************)
(* Model of the simulation session orchestrator of simulatoor              *)
(* (src/src/simulation.rs, src/src/evm.rs, src/src/main.rs).               *)
(*                                                                         *)
(* An Option<T> of the source is a sequence: << >> is None, <<x>> Some(x). *)
(* The execution engine (foundry Executor over a forked Backend) is the    *)
(* record  [chain_id, block, timestamp, accounts, committed]:  the fields  *)
(* of the executor's env the orchestrator reads and writes, the backend's  *)
(* account table, and the number of committed transactions, which stands   *)
(* for the state effects of transact_raw.                                  *)
(***************************************************************************)
EXTENDS Integers, Sequences, FiniteSets, TLC

\* ---------------------------------------------------------------- bounds
\* The sessions start-session may create.
MaxSessions == 2
\* The transactions of a stateful run, and of a stateless bundle.
MaxTxs == 2
MaxBundleTxs == 3
\* Block numbers are 0..MaxBlock.
MaxBlock == 1
\* The requests the server receives: on the session routes from concurrent
\* clients, on the session routes from one client, on the stateless routes.
MaxReqs == 3
MaxSerialReqs == 3
MaxBundleReqs == 1
\* Block numbers of a single loop iteration taken alone are 0..MaxStepBlock.
MaxStepBlock == 3

\* ------------------------------------------------------ program constants
\* U256::from(12): the per-block time increment of both loops.
BLOCK_TIME == 12

\* The chain id of the fork behind config.fork_url, which every engine takes.
ForkChainId == 1

\* ------------------------------------------------------------ value sets
\* The request handlers (tasks) that may be in flight together.
Procs == {1, 2}
\* Session identifiers, in the order Uuid::new_v4 produces them.
Ids == 1..MaxSessions
\* The shards of the DashMap.
Shards == {1, 2}
\* The fork's chain id and another one.
ChainIds == {1, 2}
Blocks == 0..MaxBlock
\* Storage keys and values (U256).
Slots == {1, 2}
Values == {1, 2}
Addrs == {"X", "Y"}

None == << >>
Some(x) == <<x>>

\* Option<u64>::unwrap_or_default()
unwrap_or_default(o) == IF o = None THEN 0 ELSE o[1]

\* The derived PartialOrd of Option<u64>: None < Some(_), Some(a) < Some(b) iff a < b.
OptionLt(a, b) ==
  IF a = None THEN b # None
  ELSE IF b = None THEN FALSE
  ELSE a[1] < b[1]

OptBlocks == {None} \cup {Some(b) : b \in Blocks}

\* HashMap<U256, U256>: a function on a subset of Slots.
SlotMaps == UNION {[D -> Values] : D \in SUBSET Slots}

\* HashMap::extend: every pair of s is inserted into m, replacing an equal key.
extend(m, s) ==
  [k \in (DOMAIN m) \cup (DOMAIN s) |-> IF k \in DOMAIN s THEN s[k] ELSE m[k]]

EmptyMap == [k \in {} |-> 0]

\* ---------------------------------------------------------------- engine
\* The engine as the fork gives it at a block: no local account, no
\* committed transaction.
new_evm_at(block) ==
  [chain_id |-> ForkChainId, block |-> block, timestamp |-> 0,
   accounts |-> [a \in Addrs |-> None], committed |-> 0]

\* AccountInfo::default()
DefaultInfo == [balance |-> 0, nonce |-> 0, code |-> None]

\* Account::new_not_existing(): default info, empty storage.
new_not_existing == [info |-> DefaultInfo, storage |-> EmptyMap]

\* DatabaseRef::basic_ref: the info of the account in the backend, if any.
basic_ref(evm, address) ==
  IF evm.accounts[address] = None THEN None
  ELSE Some(evm.accounts[address][1].info)

\* commit as it would be if it replaced the backend's slots of the address
\* by those of account.storage.
commit_replacing_storage(evm, address, account) ==
  [evm EXCEPT !.accounts[address] =
     Some([info |-> account.info, storage |-> account.storage])]

\* DatabaseCommit::commit of one (address, account): the account's info replaces
\* the backend's and the slots of account.storage are written over the
\* backend's slots of that address.
commit(evm, address, account) ==
  LET old == IF evm.accounts[address] = None THEN EmptyMap
             ELSE evm.accounts[address][1].storage
  IN [evm EXCEPT !.accounts[address] =
        Some([info |-> account.info, storage |-> extend(old, account.storage)])]

\* impl From<State> for StorageOverride: Full -> diff = false, Diff -> diff = true.
StorageOverrideFrom(state) ==
  [slots |-> state.slots, diff |-> (state.kind = "Diff")]

\* Bytecode::new_raw_checked fails on the malformed code "bad".
new_raw_checked_ok(code) == code # "bad"

\* The local account.storage of override_account once the storage override
\* has been applied to it: cleared when storage.diff, then extended.
override_storage(account_storage, storage) ==
  extend(IF storage.diff THEN EmptyMap ELSE account_storage, storage.slots)

\* override_account as it would be if it started from a default account
\* instead of the info read from the backend.
override_account_resetting(evm, address, balance, nonce, code, storage, db_ok) ==
  IF ~db_ok THEN [ok |-> FALSE, evm |-> evm]
  ELSE IF code # None /\ ~new_raw_checked_ok(code[1]) THEN [ok |-> FALSE, evm |-> evm]
  ELSE
    LET info0 == DefaultInfo
        info1 == IF balance # None THEN [info0 EXCEPT !.balance = balance[1]] ELSE info0
        info2 == IF nonce # None THEN [info1 EXCEPT !.nonce = nonce[1]] ELSE info1
        info3 == IF code # None THEN [info2 EXCEPT !.code = code] ELSE info2
        stor == IF storage # None
                THEN override_storage(new_not_existing.storage, storage[1])
                ELSE new_not_existing.storage
    IN [ok |-> TRUE, evm |-> commit(evm, address, [info |-> info3, storage |-> stor])]

\* Evm::override_account. db_ok is whether basic_ref could read the account.
\* The result is [ok, evm]: OverrideError leaves the engine as it was.
override_account(evm, address, balance, nonce, code, storage, db_ok) ==
  IF ~db_ok THEN [ok |-> FALSE, evm |-> evm]
  ELSE IF code # None /\ ~new_raw_checked_ok(code[1]) THEN [ok |-> FALSE, evm |-> evm]
  ELSE
    LET read == basic_ref(evm, address)
        info0 == IF read = None THEN DefaultInfo ELSE read[1]
        info1 == IF balance # None THEN [info0 EXCEPT !.balance = balance[1]] ELSE info0
        info2 == IF nonce # None THEN [info1 EXCEPT !.nonce = nonce[1]] ELSE info1
        info3 == IF code # None THEN [info2 EXCEPT !.code = code] ELSE info2
        stor == IF storage # None
                THEN override_storage(new_not_existing.storage, storage[1])
                ELSE new_not_existing.storage
    IN [ok |-> TRUE, evm |-> commit(evm, address, [info |-> info3, storage |-> stor])]

\* The loop of run over transaction.state_overrides: a sequence of
\* [address, balance, nonce, code, state], applied in order until one fails.
RECURSIVE apply_overrides(_, _, _)
apply_overrides(evm, overrides, db_ok) ==
  IF overrides = << >> THEN [ok |-> TRUE, evm |-> evm]
  ELSE
    LET o == Head(overrides)
        r == override_account(evm, o.address, o.balance, o.nonce, o.code,
                              IF o.state = None THEN None
                              ELSE Some(StorageOverrideFrom(o.state[1])), db_ok)
    IN IF ~r.ok THEN r ELSE apply_overrides(r.evm, Tail(overrides), db_ok)

\* Evm::transact_raw (commit) and Evm::call_raw (no commit) with the engine's
\* outcome: "ok", "reverted" or "EvmError". Only a committing transaction
\* that neither fails nor reverts leaves its effects in the engine.
execute(evm, commit_flag, outcome) ==
  IF commit_flag /\ outcome = "ok" THEN [evm EXCEPT !.committed = @ + 1] ELSE evm

\* run as it would be if a reverted transaction were an error.
run_revert_is_error(evm, transaction, commit_flag, db_ok, outcome) ==
  LET o == apply_overrides(evm, transaction.state_overrides, db_ok)
  IN IF ~o.ok THEN [err |-> "OverrideError", evm |-> o.evm, success |-> FALSE]
     ELSE IF outcome # "ok" THEN [err |-> "EvmError", evm |-> o.evm, success |-> FALSE]
     ELSE [err |-> "", evm |-> execute(o.evm, commit_flag, outcome), success |-> TRUE]

\* run(evm, transaction, commit): overrides, then the engine call.
\* The result is [err, evm, success]; err = "" when run returns Ok.
run(evm, transaction, commit_flag, db_ok, outcome) ==
  LET o == apply_overrides(evm, transaction.state_overrides, db_ok)
  IN IF ~o.ok THEN [err |-> "OverrideError", evm |-> o.evm, success |-> FALSE]
     ELSE IF outcome = "EvmError" THEN [err |-> "EvmError", evm |-> o.evm, success |-> FALSE]
     ELSE [err |-> "", evm |-> execute(o.evm, commit_flag, outcome),
           success |-> (outcome = "ok")]

\* advance_block as it would be if the timestamp moved by 12 for every block
\* of the jump.
advance_block_per_block(evm, tx_block) ==
  [evm EXCEPT !.block = tx_block, !.timestamp = @ + BLOCK_TIME * (tx_block - evm.block)]

\* Evm::set_block then Evm::set_block_timestamp(get_block_timestamp() + 12).
advance_block(evm, tx_block) ==
  [evm EXCEPT !.block = tx_block, !.timestamp = @ + BLOCK_TIME]

\* The condition under which the stateful loop enters its block-progression branch.
stateful_progresses(evm, transaction, first_block_number) ==
  \/ transaction.block_number # first_block_number
  \/ unwrap_or_default(transaction.block_number) # evm.block

\* The condition under which the bundle loop enters its block-progression branch.
bundle_progresses(evm, transaction, first_block_number) ==
  transaction.block_number # first_block_number

\* block_progression as it would be without `tx_block < evm.get_block()`.
block_progression_first_only(evm, transaction, first_block_number) ==
  IF transaction.block_number = None THEN [err |-> "NoBlockNumberError", evm |-> evm]
  ELSE
    LET tx_block == transaction.block_number[1]
    IN IF OptionLt(transaction.block_number, first_block_number)
       THEN [err |-> "InvalidBlockNumbersError", evm |-> evm]
       ELSE [err |-> "", evm |-> advance_block(evm, tx_block)]

\* block_progression as it would be without either ordering check.
block_progression_unchecked(evm, transaction, first_block_number) ==
  IF transaction.block_number = None THEN [err |-> "NoBlockNumberError", evm |-> evm]
  ELSE [err |-> "", evm |-> advance_block(evm, transaction.block_number[1])]

\* The body of the block-progression branch, common to both loops.
\* The result is [err, evm].
block_progression(evm, transaction, first_block_number) ==
  IF transaction.block_number = None THEN [err |-> "NoBlockNumberError", evm |-> evm]
  ELSE
    LET tx_block == transaction.block_number[1]
    IN IF OptionLt(transaction.block_number, first_block_number) \/ tx_block < evm.block
       THEN [err |-> "InvalidBlockNumbersError", evm |-> evm]
       ELSE [err |-> "", evm |-> advance_block(evm, tx_block)]

\* One iteration of the loop of simulate_stateful (progresses = stateful_progresses)
\* or simulate_bundle (progresses = bundle_progresses): chain id check, block
\* progression, run with commit = true. The result is [err, evm, success].
loop_body(evm, transaction, first_chain_id, first_block_number, progresses, db_ok, outcome) ==
  IF transaction.chain_id # first_chain_id
  THEN [err |-> "MultipleChainIdsError", evm |-> evm, success |-> FALSE]
  ELSE
    LET b == IF progresses
             THEN block_progression(evm, transaction, first_block_number)
             ELSE [err |-> "", evm |-> evm]
    IN IF b.err # "" THEN [err |-> b.err, evm |-> b.evm, success |-> FALSE]
       ELSE run(b.evm, transaction, TRUE, db_ok, outcome)

\* stateful_body as it would be if a failing element put the engine back to
\* the state of the fork.
stateful_body_restoring(evm, transaction, first_chain_id, first_block_number, db_ok, outcome) ==
  LET r == loop_body(evm, transaction, first_chain_id, first_block_number,
                     stateful_progresses(evm, transaction, first_block_number), db_ok, outcome)
  IN IF r.err # "" THEN [r EXCEPT !.evm = new_evm_at(evm.block)] ELSE r

stateful_body(evm, transaction, first_chain_id, first_block_number, db_ok, outcome) ==
  loop_body(evm, transaction, first_chain_id, first_block_number,
            stateful_progresses(evm, transaction, first_block_number), db_ok, outcome)

bundle_body(evm, transaction, first_chain_id, first_block_number, db_ok, outcome) ==
  loop_body(evm, transaction, first_chain_id, first_block_number,
            bundle_progresses(evm, transaction, first_block_number), db_ok, outcome)

\* ----------------------------------------------------------------- state
VARIABLES
  evms,        \* SharedSimulationState.evms: id -> Option of the session's engine
  shard_of,    \* the DashMap shard each id hashes to (RandomState, fixed per process run)
  shard_lock,  \* per shard: the request holding its write lock (a RefMut), 0 if none
  mutex,       \* per id: the request holding the engine's tokio Mutex, 0 if none
  next_id,     \* the number of identifiers Uuid::new_v4 has produced
  proc,        \* per request handler: its position and locals
  own,         \* per request handler: the engine it has constructed and owns (Option)
  reqs,        \* the number of requests received so far
  call         \* the last direct call of override_account: arguments and prior account

vars == <<evms, shard_of, shard_lock, mutex, next_id, proc, own, reqs, call>>

\* Evm::new: the engine forked at fork_block_number, or at the fork's latest block.
new_evm(block) == new_evm_at(block)

\* `if let Some(timestamp) = block_timestamp { evm.set_block_timestamp(timestamp) }`
set_first_timestamp(evm, block_timestamp) ==
  IF block_timestamp = None THEN evm ELSE [evm EXCEPT !.timestamp = block_timestamp[1]]

\* Option<U256> block_timestamp of a request.
Timestamps == {None, Some(1)}

Idle == [pc |-> "idle", op |-> "", param |-> 0, first_chain_id |-> 0,
         first_block_number |-> None, i |-> 0, len |-> 0, result |-> "",
         response |-> << >>]

Free(p) == proc[p].pc \in {"idle", "done"}

\* A request is taken by the first handler that is not in the middle of one.
CanStart(p) ==
  /\ Free(p)
  /\ \A q \in Procs : q < p => ~Free(q)

\* The handler returns: its locals are dropped, the outcome is kept.
Return(p, result, response) ==
  [Idle EXCEPT !.pc = "done", !.op = proc[p].op, !.param = proc[p].param,
               !.i = proc[p].i, !.result = result, !.response = response]

Override(address, balance, nonce, code, state) ==
  [address |-> address, balance |-> balance, nonce |-> nonce, code |-> code, state |-> state]

\* The state_overrides a transaction of a run carries.
RunOverrides ==
  { << >>,
    <<Override("X", None, None, None, Some([kind |-> "Diff", slots |-> (1 :> 1)]))>>,
    <<Override("X", None, None, None, Some([kind |-> "Full", slots |-> (1 :> 1)]))>>,
    <<Override("X", None, None, Some("bad"), None)>> }

\* SimulationRequest: the fields the orchestrator itself reads.
Txs == [chain_id : ChainIds, block_number : OptBlocks, state_overrides : RunOverrides]

\* What the engine makes of a transaction.
Outcomes == {"ok", "reverted", "EvmError"}

Init ==
  /\ evms = [id \in Ids |-> None]
  /\ shard_of \in [Ids -> Shards]
  /\ shard_lock = [s \in Shards |-> 0]
  /\ mutex = [id \in Ids |-> 0]
  /\ next_id = 0
  /\ proc = [p \in Procs |-> Idle]
  /\ own = [p \in Procs |-> None]
  /\ reqs = 0
  /\ call = None

\* shard_free as it would be if the map handed out entries without locking.
shard_free_unlocked(id) == TRUE

\* A DashMap operation on id goes ahead when no RefMut holds the lock of the
\* shard id hashes to; until then it waits.
shard_free(id) == shard_lock[shard_of[id]] = 0

\* tokio Mutex::lock().await completes when no MutexGuard of the engine is alive.
mutex_free(id) == mutex[id] = 0

\* ------------------------------------------------- simulate_stateful_new
\* Evm::new(.., block_number, ..).await? and the optional first timestamp.
\* latest is the fork's latest block, used when block_number is None.
simulate_stateful_new_evm(p, block_number, block_timestamp, latest, created) ==
  /\ CanStart(p)
  /\ reqs' = reqs + 1
  /\ IF ~created
     THEN /\ proc' = [proc EXCEPT ![p] =
                        [Idle EXCEPT !.pc = "done", !.op = "new", !.result = "EvmCreateError"]]
          /\ own' = [own EXCEPT ![p] = None]
     ELSE /\ proc' = [proc EXCEPT ![p] = [Idle EXCEPT !.pc = "insert", !.op = "new"]]
          /\ own' = [own EXCEPT ![p] =
                       Some(set_first_timestamp(
                              new_evm(IF block_number = None THEN latest ELSE block_number[1]),
                              block_timestamp))]
  /\ UNCHANGED <<evms, shard_of, shard_lock, mutex, next_id, call>>

\* simulate_stateful_new_insert as it would be if the identifier were one
\* the registry may already hold.
simulate_stateful_new_insert_reusing(p) ==
  /\ proc[p].pc = "insert"
  /\ next_id + 1 \in Ids
  /\ LET new_id == 1
     IN /\ shard_free(new_id)
        /\ evms' = [evms EXCEPT ![new_id] = own[p]]
        /\ next_id' = next_id + 1
        /\ proc' = [proc EXCEPT ![p] = [Return(p, "Ok", << >>) EXCEPT !.param = new_id]]
  /\ own' = [own EXCEPT ![p] = None]
  /\ UNCHANGED <<shard_of, shard_lock, mutex, reqs, call>>

\* Uuid::new_v4() and state.evms.insert(new_id, Arc::new(Mutex::new(evm))):
\* insert takes the write lock of the id's shard.
simulate_stateful_new_insert(p) ==
  /\ proc[p].pc = "insert"
  /\ next_id + 1 \in Ids
  /\ LET new_id == next_id + 1
     IN /\ shard_free(new_id)
        /\ evms' = [evms EXCEPT ![new_id] = own[p]]
        /\ next_id' = new_id
        /\ proc' = [proc EXCEPT ![p] = [Return(p, "Ok", << >>) EXCEPT !.param = new_id]]
  /\ own' = [own EXCEPT ![p] = None]
  /\ UNCHANGED <<shard_of, shard_lock, mutex, reqs, call>>

\* ------------------------------------------------- simulate_stateful_end
\* The handler receives an end-session request for param.
simulate_stateful_end_start(p, param) ==
  /\ CanStart(p)
  /\ reqs' = reqs + 1
  /\ proc' = [proc EXCEPT ![p] = [Idle EXCEPT !.pc = "contains", !.op = "end", !.param = param]]
  /\ own' = [own EXCEPT ![p] = None]
  /\ UNCHANGED <<evms, shard_of, shard_lock, mutex, next_id, call>>

\* state.evms.contains_key(&param): a read lock of the shard, released at once.
simulate_stateful_end_contains(p) ==
  /\ proc[p].pc = "contains"
  /\ shard_free(proc[p].param)
  /\ proc' = [proc EXCEPT ![p] =
       IF evms[proc[p].param] # None
       THEN [proc[p] EXCEPT !.pc = "remove"]
       ELSE Return(p, "StateNotFound", << >>)]
  /\ UNCHANGED <<evms, shard_of, shard_lock, mutex, next_id, own, reqs, call>>

\* simulate_stateful_end_remove as it would be if remove did not wait for
\* the shard's lock.
simulate_stateful_end_remove_unguarded(p) ==
  /\ proc[p].pc = "remove"
  /\ evms' = [evms EXCEPT ![proc[p].param] = None]
  /\ proc' = [proc EXCEPT ![p] = Return(p, "Ok", << >>)]
  /\ UNCHANGED <<shard_of, shard_lock, mutex, next_id, own, reqs, call>>

\* state.evms.remove(&param): a write lock of the shard; the response is
\* success: true whether or not the key was still present.
simulate_stateful_end_remove(p) ==
  /\ proc[p].pc = "remove"
  /\ shard_free(proc[p].param)
  /\ evms' = [evms EXCEPT ![proc[p].param] = None]
  /\ proc' = [proc EXCEPT ![p] = Return(p, "Ok", << >>)]
  /\ UNCHANGED <<shard_of, shard_lock, mutex, next_id, own, reqs, call>>

\* ----------------------------------------------------- simulate_stateful
\* The handler receives a run for session param. Its transactions are the
\* request's and never change: the model draws each one where the handler
\* first uses it, transactions[0] (first_chain_id, first_block_number) and
\* the length at get_mut, the others in the loop.
simulate_stateful_start(p, param) ==
  /\ CanStart(p)
  /\ reqs' = reqs + 1
  /\ proc' = [proc EXCEPT ![p] =
                [Idle EXCEPT !.pc = "get_mut", !.op = "stateful", !.param = param]]
  /\ own' = [own EXCEPT ![p] = None]
  /\ UNCHANGED <<evms, shard_of, shard_lock, mutex, next_id, call>>

\* state.evms.get_mut(&param): the write lock of the shard, kept in the
\* RefMut until the handler returns; not_found when the key is absent.
simulate_stateful_get_mut(p, len, first_chain_id, first_block_number) ==
  /\ proc[p].pc = "get_mut"
  /\ shard_free(proc[p].param)
  /\ IF evms[proc[p].param] = None
     THEN /\ proc' = [proc EXCEPT ![p] = Return(p, "not_found", << >>)]
          /\ shard_lock' = shard_lock
     ELSE /\ proc' = [proc EXCEPT ![p] =
                        [proc[p] EXCEPT !.pc = "lock", !.len = len,
                                        !.first_chain_id = first_chain_id,
                                        !.first_block_number = first_block_number]]
          /\ shard_lock' = [shard_lock EXCEPT ![shard_of[proc[p].param]] = p]
  /\ UNCHANGED <<evms, shard_of, mutex, next_id, own, reqs, call>>

\* held_after as it would be if an error return kept the guards alive.
held_after_leaking(lock, key, err, last) ==
  IF err = "" /\ last THEN [lock EXCEPT ![key] = 0] ELSE lock

\* A guard (the RefMut of the shard, the MutexGuard of the engine) after a
\* step of the run: dropped when the handler returns, by an error or after
\* the last transaction, and held otherwise.
held_after(lock, key, err, last) ==
  IF err # "" \/ last THEN [lock EXCEPT ![key] = 0] ELSE lock

\* simulate_stateful_lock as it would be without the comparison of the
\* engine's chain id with the first transaction's.
simulate_stateful_lock_unchecked(p) ==
  /\ proc[p].pc = "lock"
  /\ mutex_free(proc[p].param)
  /\ proc' = [proc EXCEPT ![p].pc = "loop"]
  /\ mutex' = [mutex EXCEPT ![proc[p].param] = p]
  /\ UNCHANGED <<evms, shard_of, shard_lock, next_id, own, reqs, call>>

\* evm.lock().await, then the check of the engine's chain id against the
\* first transaction's. A return drops the MutexGuard and the RefMut.
simulate_stateful_lock(p) ==
  /\ proc[p].pc = "lock"
  /\ mutex_free(proc[p].param)
  /\ IF evms[proc[p].param][1].chain_id # proc[p].first_chain_id
     THEN /\ proc' = [proc EXCEPT ![p] = Return(p, "IncorrectChainIdError", << >>)]
          /\ shard_lock' = held_after(shard_lock, shard_of[proc[p].param],
                                      "IncorrectChainIdError", FALSE)
          /\ mutex' = mutex
     ELSE /\ proc' = [proc EXCEPT ![p].pc = "loop"]
          /\ mutex' = [mutex EXCEPT ![proc[p].param] = p]
          /\ shard_lock' = shard_lock
  /\ UNCHANGED <<evms, shard_of, next_id, own, reqs, call>>

\* transactions[0] is the transaction first_chain_id and first_block_number come from.
IsElement(p, transaction) ==
  proc[p].i = 0 =>
    /\ transaction.chain_id = proc[p].first_chain_id
    /\ transaction.block_number = proc[p].first_block_number

\* after_element as it would be if an error came with the results computed
\* so far.
after_element_partial(p, r) ==
  LET response == Append(proc[p].response, r.success)
  IN IF r.err # "" THEN Return(p, r.err, proc[p].response)
     ELSE IF proc[p].i + 1 = proc[p].len
          THEN [Return(p, "Ok", response) EXCEPT !.i = @ + 1]
          ELSE [proc[p] EXCEPT !.i = @ + 1, !.response = response]

\* The handler's locals after iteration i of a loop gave r: an error returns
\* it alone, the last transaction returns the response.
after_element(p, r) ==
  LET response == Append(proc[p].response, r.success)
  IN IF r.err # "" THEN Return(p, r.err, << >>)
     ELSE IF proc[p].i + 1 = proc[p].len
          THEN [Return(p, "Ok", response) EXCEPT !.i = @ + 1]
          ELSE [proc[p] EXCEPT !.i = @ + 1, !.response = response]

\* simulate_stateful_element as it would be if the sessions shared one engine.
simulate_stateful_element_shared(p, transaction, db_ok, outcome) ==
  /\ proc[p].pc = "loop"
  /\ IsElement(p, transaction)
  /\ LET id == proc[p].param
         r == stateful_body(evms[id][1], transaction, proc[p].first_chain_id,
                            proc[p].first_block_number, db_ok, outcome)
         last == proc[p].i + 1 = proc[p].len
     IN /\ evms' = [j \in Ids |-> IF evms[j] = None THEN None ELSE Some(r.evm)]
        /\ proc' = [proc EXCEPT ![p] = after_element(p, r)]
        /\ shard_lock' = held_after(shard_lock, shard_of[id], r.err, last)
        /\ mutex' = held_after(mutex, id, r.err, last)
  /\ UNCHANGED <<shard_of, next_id, own, reqs, call>>

\* One iteration of `for transaction in transactions` under the session's
\* locks. When the handler returns, the MutexGuard and the RefMut are dropped.
simulate_stateful_element(p, transaction, db_ok, outcome) ==
  /\ proc[p].pc = "loop"
  /\ IsElement(p, transaction)
  /\ LET id == proc[p].param
         r == stateful_body(evms[id][1], transaction, proc[p].first_chain_id,
                            proc[p].first_block_number, db_ok, outcome)
         last == proc[p].i + 1 = proc[p].len
     IN /\ evms' = [evms EXCEPT ![id] = Some(r.evm)]
        /\ proc' = [proc EXCEPT ![p] = after_element(p, r)]
        /\ shard_lock' = held_after(shard_lock, shard_of[id], r.err, last)
        /\ mutex' = held_after(mutex, id, r.err, last)
  /\ UNCHANGED <<shard_of, next_id, own, reqs, call>>

\* The handlers of the session routes, run by the handlers P. T is the set
\* of block_timestamp values a start-session request may carry, R the number
\* of requests the server receives and N the number of sessions they name.
SessionNext(P, T, R, N) ==
  \/ /\ reqs < R
     /\ \E p \in P, b \in OptBlocks, t \in T, latest \in Blocks, c \in BOOLEAN :
          simulate_stateful_new_evm(p, b, t, latest, c)
  \/ /\ next_id < N
     /\ \E p \in P : simulate_stateful_new_insert(p)
  \/ /\ reqs < R
     /\ \E p \in P, id \in 1..N : simulate_stateful_end_start(p, id)
  \/ \E p \in P : simulate_stateful_end_contains(p)
  \/ \E p \in P : simulate_stateful_end_remove(p)
  \/ /\ reqs < R
     /\ \E p \in P, id \in 1..N : simulate_stateful_start(p, id)
  \/ \E p \in P, len \in 1..MaxTxs, c \in ChainIds, b \in OptBlocks :
       simulate_stateful_get_mut(p, len, c, b)
  \/ \E p \in P : simulate_stateful_lock(p)
  \/ \E p \in P, tx \in Txs, db_ok \in BOOLEAN, outcome \in Outcomes :
       simulate_stateful_element(p, tx, db_ok, outcome)

Next == SessionNext(Procs, {None}, MaxReqs, MaxSessions)

\* The server with its session routes, requests arriving concurrently.
Spec == Init /\ [][Next]_vars

SerialInit == Init /\ shard_of = [id \in Ids |-> 1]

SerialNext == SessionNext({1}, Timestamps, MaxSerialReqs, 1)

\* The session routes driven by one client that starts one session and
\* sends one request at a time.
SerialSpec == SerialInit /\ [][SerialNext]_vars

\* ------------------------------------------- simulate and simulate_bundle
\* simulate_bundle up to its loop: Evm::new at the first transaction's block,
\* the chain id check, the optional first timestamp.
simulate_bundle_new(p, len, first_chain_id, first_block_number, first_block_timestamp, latest, created) ==
  /\ CanStart(p)
  /\ reqs' = reqs + 1
  /\ LET evm == new_evm(IF first_block_number = None THEN latest
                        ELSE first_block_number[1])
         start == [Idle EXCEPT !.op = "bundle", !.len = len,
                               !.first_chain_id = first_chain_id,
                               !.first_block_number = first_block_number]
     IN IF ~created
        THEN /\ proc' = [proc EXCEPT ![p] =
                           [start EXCEPT !.pc = "done", !.len = 0,
                                         !.first_chain_id = 0, !.first_block_number = None,
                                         !.result = "EvmCreateError"]]
             /\ own' = [own EXCEPT ![p] = None]
        ELSE IF evm.chain_id # first_chain_id
        THEN /\ proc' = [proc EXCEPT ![p] =
                           [start EXCEPT !.pc = "done", !.len = 0,
                                         !.first_chain_id = 0, !.first_block_number = None,
                                         !.result = "IncorrectChainIdError"]]
             /\ own' = [own EXCEPT ![p] = Some(evm)]
        ELSE /\ proc' = [proc EXCEPT ![p] = [start EXCEPT !.pc = "bundle"]]
             /\ own' = [own EXCEPT ![p] = Some(set_first_timestamp(evm, first_block_timestamp))]
  /\ UNCHANGED <<evms, shard_of, shard_lock, mutex, next_id, call>>

\* One iteration of the loop of simulate_bundle on the request's own engine.
\* own keeps the engine as the handler left it when it returned.
simulate_bundle_element(p, transaction, db_ok, outcome) ==
  /\ proc[p].pc = "bundle"
  /\ IsElement(p, transaction)
  /\ LET r == bundle_body(own[p][1], transaction, proc[p].first_chain_id,
                          proc[p].first_block_number, db_ok, outcome)
     IN /\ own' = [own EXCEPT ![p] = Some(r.evm)]
        /\ proc' = [proc EXCEPT ![p] = after_element(p, r)]
  /\ UNCHANGED <<evms, shard_of, shard_lock, mutex, next_id, reqs, call>>

\* simulate up to its call of run: Evm::new at the transaction's block, the
\* chain id check, the optional timestamp.
simulate_new(p, chain_id, block_number, block_timestamp, latest, created) ==
  /\ CanStart(p)
  /\ reqs' = reqs + 1
  /\ LET evm == new_evm(IF block_number = None THEN latest ELSE block_number[1])
         done == [Idle EXCEPT !.pc = "done", !.op = "simulate"]
     IN IF ~created
        THEN /\ proc' = [proc EXCEPT ![p] = [done EXCEPT !.result = "EvmCreateError"]]
             /\ own' = [own EXCEPT ![p] = None]
        ELSE IF evm.chain_id # chain_id
        THEN /\ proc' = [proc EXCEPT ![p] = [done EXCEPT !.result = "IncorrectChainIdError"]]
             /\ own' = [own EXCEPT ![p] = Some(evm)]
        ELSE /\ proc' = [proc EXCEPT ![p] =
                  [Idle EXCEPT !.pc = "simulate", !.op = "simulate", !.len = 1,
                               !.first_chain_id = chain_id,
                               !.first_block_number = block_number]]
             /\ own' = [own EXCEPT ![p] = Some(set_first_timestamp(evm, block_timestamp))]
  /\ UNCHANGED <<evms, shard_of, shard_lock, mutex, next_id, call>>

\* simulate's run(&mut evm, transaction, false) and its reply.
simulate_run(p, transaction, db_ok, outcome) ==
  /\ proc[p].pc = "simulate"
  /\ IsElement(p, transaction)
  /\ LET r == run(own[p][1], transaction, FALSE, db_ok, outcome)
     IN /\ own' = [own EXCEPT ![p] = Some(r.evm)]
        /\ proc' = [proc EXCEPT ![p] = after_element(p, r)]
  /\ UNCHANGED <<evms, shard_of, shard_lock, mutex, next_id, reqs, call>>

BundleNext ==
  \/ /\ reqs < MaxBundleReqs
     /\ \E len \in 1..MaxBundleTxs, c \in ChainIds, b \in OptBlocks, t \in Timestamps,
           latest \in Blocks, created \in BOOLEAN :
          simulate_bundle_new(1, len, c, b, t, latest, created)
  \/ \E tx \in Txs, db_ok \in BOOLEAN, outcome \in Outcomes :
       simulate_bundle_element(1, tx, db_ok, outcome)
  \/ /\ reqs < MaxBundleReqs
     /\ \E c \in ChainIds, b \in OptBlocks, t \in Timestamps, latest \in Blocks,
           created \in BOOLEAN :
          simulate_new(1, c, b, t, latest, created)
  \/ \E tx \in Txs, db_ok \in BOOLEAN, outcome \in Outcomes :
       simulate_run(1, tx, db_ok, outcome)

\* The stateless routes: every request runs on an engine of its own, so one
\* handler shows all there is.
BundleSpec == SerialInit /\ [][BundleNext]_vars

\* ------------------------------------------------------ override_account
\* The accounts an engine may hold when override_account is called on it.
OldInfo == [balance |-> 3, nonce |-> 4, code |-> Some("old")]

AccountStates ==
  {None} \cup {Some([info |-> i, storage |-> m]) : i \in {DefaultInfo, OldInfo}, m \in SlotMaps}

\* The balance, nonce and code an override may carry.
InfoOverrides ==
  { <<None, None, None>>, <<Some(5), None, None>>, <<None, Some(7), None>>,
    <<None, None, Some("new")>>, <<Some(5), Some(7), Some("new")>>,
    <<None, None, Some("bad")>> }

\* Option<State> of a StateOverride.
States == {None} \cup {Some([kind |-> k, slots |-> m]) : k \in {"Full", "Diff"}, m \in SlotMaps}

OverrideInit ==
  /\ evms = [id \in Ids |-> None]
  /\ shard_of = [id \in Ids |-> 1]
  /\ shard_lock = [s \in Shards |-> 0]
  /\ mutex = [id \in Ids |-> 0]
  /\ next_id = 0
  /\ proc = [p \in Procs |-> Idle]
  /\ \E x \in AccountStates :
       own = [p \in Procs |->
                IF p = 1
                THEN Some([new_evm(0) EXCEPT !.accounts =
                             [a \in Addrs |-> IF a = "X" THEN x
                                              ELSE Some([info |-> OldInfo, storage |-> (1 :> 1)])]])
                ELSE None]
  /\ reqs = 0
  /\ call = None

\* evm.override_account(address, balance, nonce, code, state.map(StorageOverride::from))
\* as run calls it for one entry of state_overrides; call records the
\* arguments, the accounts before the call and whether it returned Ok.
override_call(p, address, info, state, db_ok) ==
  /\ own[p] # None
  /\ call = None
  /\ LET r == override_account(own[p][1], address, info[1], info[2], info[3],
                               IF state = None THEN None
                               ELSE Some(StorageOverrideFrom(state[1])), db_ok)
     IN /\ own' = [own EXCEPT ![p] = Some(r.evm)]
        /\ call' = Some([address |-> address, balance |-> info[1], nonce |-> info[2],
                         code |-> info[3], state |-> state,
                         before |-> own[p][1].accounts, ok |-> r.ok])
  /\ UNCHANGED <<evms, shard_of, shard_lock, mutex, next_id, proc, reqs>>

OverrideNext ==
  /\ call = None
  /\ \E a \in Addrs, info \in InfoOverrides, st \in States, db_ok \in BOOLEAN :
       override_call(1, a, info, st, db_ok)

\* override_account applied once to an engine holding any of AccountStates.
OverrideSpec == OverrideInit /\ [][OverrideNext]_vars

\* ------------------------------------------------- one iteration of a loop
StepBlocks == 0..MaxStepBlock
StepOptBlocks == {None} \cup {Some(b) : b \in StepBlocks}
StepTxs == [chain_id : ChainIds, block_number : StepOptBlocks, state_overrides : RunOverrides]

\* The engine block n an iteration can find, given the loop (op), whether it
\* is the first iteration (i = 0) and first_block_number: the bundle's engine
\* is created at the first block, and once transactions[0] has been through
\* either loop the engine is at or above the block it named.
StepReachable(op, i, first_block_number, n) ==
  IF op = "stateful" /\ i = 0 THEN TRUE
  ELSE IF first_block_number = None THEN TRUE
  ELSE IF i = 0 THEN first_block_number[1] = n
  ELSE first_block_number[1] <= n

StepInit ==
  /\ evms = [id \in Ids |-> None]
  /\ shard_of = [id \in Ids |-> 1]
  /\ shard_lock = [s \in Shards |-> 0]
  /\ mutex = [id \in Ids |-> 0]
  /\ next_id = 0
  /\ \E op \in {"stateful", "bundle"}, i \in {0, 1}, f \in StepOptBlocks,
        n \in StepBlocks, t \in Timestamps :
       /\ StepReachable(op, i, f, n)
       /\ proc = [p \in Procs |->
                    IF p = 1
                    THEN [Idle EXCEPT !.pc = "step", !.op = op, !.i = i, !.len = i + 2,
                                      !.first_chain_id = ForkChainId,
                                      !.first_block_number = f]
                    ELSE Idle]
       /\ own = [p \in Procs |->
                   IF p = 1 THEN Some(set_first_timestamp(new_evm(n), t)) ELSE None]
  /\ reqs = 0
  /\ call = None

\* The body of the loop of simulate_stateful or of simulate_bundle applied
\* to the engine for one transaction; call records the transaction, the
\* engine before the iteration and the error it ended with.
loop_step(p, transaction, db_ok, outcome) ==
  /\ proc[p].pc = "step"
  /\ call = None
  /\ IsElement(p, transaction)
  /\ LET r == IF proc[p].op = "stateful"
              THEN stateful_body(own[p][1], transaction, proc[p].first_chain_id,
                                 proc[p].first_block_number, db_ok, outcome)
              ELSE bundle_body(own[p][1], transaction, proc[p].first_chain_id,
                               proc[p].first_block_number, db_ok, outcome)
     IN /\ own' = [own EXCEPT ![p] = Some(r.evm)]
        /\ call' = Some([transaction |-> transaction, before |-> own[p][1], err |-> r.err])
  /\ UNCHANGED <<evms, shard_of, shard_lock, mutex, next_id, proc, reqs>>

StepNext ==
  /\ call = None
  /\ \E tx \in StepTxs, db_ok \in BOOLEAN, outcome \in Outcomes :
       loop_step(1, tx, db_ok, outcome)

\* One iteration of either loop, from every engine block it can find.
StepSpec == StepInit /\ [][StepNext]_vars

\* ================================================================ claims
\* The engine of the session a handler's request names.
session_evm(p) == evms[proc[p].param][1]

\* The storage of an account of an accounts table; empty when there is none.
storage_of(accounts, address) ==
  IF accounts[address] = None THEN EmptyMap ELSE accounts[address][1].storage

\* C1: in a stateful run, whatever block the session's engine is at, an
\* element that omits blockNumber executes in place: its step does not end
\* the run with NoBlockNumberError and leaves the engine's block number and
\* timestamp as they were.
C1_OmittedBlockNumberInPlace ==
  [][\A p \in Procs : proc[p].pc = "loop" =>
       \A tx \in Txs : tx.block_number = None =>
         \A db_ok \in BOOLEAN, outcome \in Outcomes :
           simulate_stateful_element(p, tx, db_ok, outcome)
             => /\ proc'[p].result # "NoBlockNumberError"
                /\ evms'[proc[p].param][1].block = session_evm(p).block
                /\ evms'[proc[p].param][1].timestamp = session_evm(p).timestamp]_vars

\* The number of transactions of the handler's request that have executed:
\* the loop index counts the iterations whose run returned Ok.
Executed(p) == proc[p].i

\* C2: a run, stateless or stateful, that fails with MultipleChainIdsError
\* has executed none of its elements.
C2_MixedChainIdsBeforeAnyExecution ==
  \A p \in Procs :
    (proc[p].op \in {"stateful", "bundle"} /\ proc[p].result = "MultipleChainIdsError")
      => Executed(p) = 0

\* What iteration i of the stateful loop of handler p does with transaction
\* tx, given whether the backend can be read and the engine's outcome.
stateful_step(p, tx, db_ok, outcome) ==
  stateful_body(session_evm(p), tx, proc[p].first_chain_id, proc[p].first_block_number,
                db_ok, outcome)

C4_BundleBlockBelowCurrentFails ==
  [][\A p \in Procs : proc[p].pc = "bundle" =>
       \A tx \in Txs :
         ( /\ tx.chain_id = proc[p].first_chain_id
           /\ tx.block_number # None
           /\ unwrap_or_default(tx.block_number) < own[p][1].block ) =>
           \A db_ok \in BOOLEAN, outcome \in Outcomes :
             simulate_bundle_element(p, tx, db_ok, outcome)
               => /\ proc'[p].pc = "done"
                  /\ proc'[p].result = "InvalidBlockNumbersError"
                  /\ own' = own]_vars

\* C5: after override_account has applied a Full storage override with
\* slots S to an address, the storage of that address is exactly S.
C5_FullOverrideReplacesStorage ==
  (call # None /\ call[1].ok /\ call[1].state # None /\ call[1].state[1].kind = "Full")
    => storage_of(own[1][1].accounts, call[1].address) = call[1].state[1].slots

\* C6: after override_account has applied a Diff storage override with
\* slots S to an address, every slot the address held whose key is not in S
\* has its previous value and every key of S has the value S gives it.
C6_DiffOverridePatchesStorage ==
  (call # None /\ call[1].ok /\ call[1].state # None /\ call[1].state[1].kind = "Diff")
    => LET before == storage_of(call[1].before, call[1].address)
           after == storage_of(own[1][1].accounts, call[1].address)
           S == call[1].state[1].slots
       IN /\ DOMAIN after = (DOMAIN before) \cup (DOMAIN S)
          /\ \A k \in DOMAIN S : after[k] = S[k]
          /\ \A k \in (DOMAIN before) \ (DOMAIN S) : after[k] = before[k]

\* C6 witness: a Diff override has been applied to an address that held a
\* slot outside S and a slot of S with another value.
C6_Witness ==
  /\ call # None
  /\ call[1].ok
  /\ call[1].state # None
  /\ call[1].state[1].kind = "Diff"
  /\ LET before == storage_of(call[1].before, call[1].address)
         S == call[1].state[1].slots
     IN /\ \E k \in DOMAIN before : k \notin DOMAIN S
        /\ \E k \in (DOMAIN before) \cap (DOMAIN S) : before[k] # S[k]

\* The session id was created by start-session and removed by end-session.
Ended(id) == id <= next_id /\ evms[id] = None

\* C7: once end-session(id) has succeeded, a later run on id and a later
\* end-session(id) both fail with StateNotFound, and nothing is executed.
C7_EndedSessionIsStateNotFound ==
  [][\A p \in Procs :
       /\ (proc[p].pc = "get_mut" /\ Ended(proc[p].param)) =>
            \A len \in 1..MaxTxs, c \in ChainIds, b \in OptBlocks :
              simulate_stateful_get_mut(p, len, c, b)
                => /\ proc'[p].pc = "done"
                   /\ proc'[p].result = "StateNotFound"
                   /\ evms' = evms
       /\ (proc[p].pc = "contains" /\ Ended(proc[p].param)) =>
            (simulate_stateful_end_contains(p)
               => /\ proc'[p].pc = "done"
                  /\ proc'[p].result = "StateNotFound"
                  /\ evms' = evms)]_vars

\* The handler is between get_mut and its return: it holds the RefMut of
\* its session's registry entry.
HoldsEntry(p) == proc[p].pc \in {"lock", "loop"}

\* C8: no two handlers hold the entry of the same session at once, the
\* holder of an entry holds the write lock of its shard and the handler in
\* the loop holds the engine's mutex: the elements of two runs on one
\* session are never interleaved.
C8_OneRunPerSession ==
  /\ \A p, q \in Procs :
       (p # q /\ HoldsEntry(p) /\ HoldsEntry(q)) => proc[p].param # proc[q].param
  /\ \A p \in Procs :
       /\ HoldsEntry(p) => shard_lock[shard_of[proc[p].param]] = p
       /\ proc[p].pc = "loop" => mutex[proc[p].param] = p

\* C8 witness: a run is past its first element while another run on the
\* same session has been received and waits at get_mut.
C8_Witness ==
  \E p, q \in Procs :
    /\ p # q
    /\ proc[p].pc = "loop"
    /\ proc[p].i >= 1
    /\ proc[q].pc = "get_mut"
    /\ proc[q].param = proc[p].param

\* The handler is about to operate on the registry: the id it names.
RegistryTarget(q) ==
  IF proc[q].pc \in {"get_mut", "contains", "remove"} THEN proc[q].param
  ELSE IF proc[q].pc = "insert" /\ next_id + 1 \in Ids THEN next_id + 1
  ELSE 0

\* C9: while a run on session A is in flight, a start-session, run or
\* end-session on another session B can go ahead with its registry
\* operation, whichever shards A and B hash to.
C9_DistinctSessionsNeverBlock ==
  \A p, q \in Procs :
    (p # q /\ HoldsEntry(p) /\ RegistryTarget(q) # 0 /\ RegistryTarget(q) # proc[p].param)
      => shard_free(RegistryTarget(q))

\* C10: a handler that is not inside a stateful run holds neither the write
\* lock of a shard nor the mutex of an engine: every return of a run, by an
\* error or after the last transaction, has released both, and a request
\* waiting for a session no run holds can acquire it.
C10_GuardsReleasedOnReturn ==
  /\ \A s \in Shards :
       shard_lock[s] # 0 =>
         (HoldsEntry(shard_lock[s]) /\ shard_of[proc[shard_lock[s]].param] = s)
  /\ \A id \in Ids :
       mutex[id] # 0 => (proc[mutex[id]].pc = "loop" /\ proc[mutex[id]].param = id)
  /\ \A q \in Procs :
       (proc[q].pc = "get_mut"
          /\ \A p \in Procs : HoldsEntry(p) => shard_of[proc[p].param] # shard_of[proc[q].param])
         => shard_free(proc[q].param)

RunErrors ==
  {"MultipleChainIdsError", "NoBlockNumberError", "InvalidBlockNumbersError",
   "OverrideError", "EvmError"}

\* C10 witness: a run has failed at an element after its first, and a run
\* on the same session that was waiting at get_mut finds the shard free.
C10_Witness ==
  \E p, q \in Procs :
    /\ p # q
    /\ proc[p].op = "stateful"
    /\ proc[p].pc = "done"
    /\ proc[p].result \in RunErrors
    /\ Executed(p) >= 1
    /\ proc[q].pc = "get_mut"
    /\ proc[q].param = proc[p].param
    /\ shard_free(proc[q].param)
    /\ mutex_free(proc[q].param)

\* C11: the block number of a session's engine never decreases: whatever
\* step is taken while the session is registered (an element of a run that
\* succeeds or fails, with or without blockNumber), the engine's block
\* number after the step is at least the one before it.
C11_SessionBlockNonDecreasing ==
  [][\A id \in Ids :
       (evms[id] # None /\ evms'[id] # None)
         => evms'[id][1].block >= evms[id][1].block]_vars

\* C11 witness: a run on a session whose engine has advanced above block 0
\* has failed at an element after its first.
C11_Witness ==
  \E p \in Procs :
    /\ proc[p].op = "stateful"
    /\ proc[p].pc = "done"
    /\ proc[p].result \in RunErrors
    /\ Executed(p) >= 1
    /\ evms[proc[p].param] # None
    /\ session_evm(p).block > 0
    /\ session_evm(p).timestamp >= BLOCK_TIME

\* C12: in a stateless bundle whose first element names a block, the
\* engine's timestamp changes only at an element that strictly increases the
\* engine's block number: an element whose blockNumber equals the engine's
\* current block number executes in place, also when it differs from the
\* first element's blockNumber.
C12_TimestampOnlyOnBlockIncrease ==
  [][\A p \in Procs :
       (proc[p].pc = "bundle" /\ proc[p].first_block_number # None
          /\ own'[p] # None
          /\ own'[p][1].timestamp # own[p][1].timestamp)
         => own'[p][1].block > own[p][1].block]_vars

\* The iterations that passed every validation of the loop: they ended
\* without error or with an error of run.
StepValid(err) == err \in {"", "OverrideError", "EvmError"}

\* C13: an element of the run's chain id that names a block m above the
\* engine's current block n is a valid advance in both loops: the engine's
\* block number becomes exactly m and its timestamp grows by exactly
\* BLOCK_TIME = 12, whatever m - n is.
C13_AdvanceSetsBlockAndAddsBlockTime ==
  ( /\ call # None
    /\ call[1].transaction.chain_id = proc[1].first_chain_id
    /\ call[1].transaction.block_number # None
    /\ unwrap_or_default(call[1].transaction.block_number) > call[1].before.block )
    => /\ StepValid(call[1].err)
       /\ own[1][1].block = call[1].transaction.block_number[1]
       /\ own[1][1].timestamp = call[1].before.timestamp + BLOCK_TIME
       /\ BLOCK_TIME = 12

\* C13 witness: an iteration after the first of a run has advanced the
\* engine by two blocks or more.
C13_Witness ==
  /\ call # None
  /\ proc[1].i >= 1
  /\ call[1].err = ""
  /\ call[1].transaction.block_number # None
  /\ call[1].transaction.block_number[1] >= call[1].before.block + 2
  /\ own[1][1].block = call[1].transaction.block_number[1]

\* C14: a stateful run is fail-fast. The element that produces a validation
\* failure, an OverrideError or an engine error ends the run: the handler
\* returns that error alone, with none of the results of the elements before
\* it, its loop index stays at the failed element, and from then on the
\* session's engine changes only by an element of a run that is in its loop.
C14_FailFast ==
  /\ [](\A p \in Procs :
          (proc[p].op = "stateful" /\ proc[p].result \in RunErrors)
            => (proc[p].pc = "done" /\ proc[p].response = << >>))
  /\ [][/\ \A p \in Procs :
            (proc[p].pc = "loop" /\ proc'[p].result \in RunErrors)
              => (proc'[p].pc = "done" /\ proc'[p].i = proc[p].i)
        /\ \A id \in Ids :
            (evms[id] # None /\ evms'[id] # None /\ evms'[id] # evms[id])
              => \E p \in Procs :
                   proc[p].pc = "loop" /\ proc[p].param = id /\ proc'[p] # proc[p]]_vars

\* C14 witness: a run has failed in run (OverrideError or EvmError) at an
\* element after its first, and its response is empty.
C14_Witness ==
  \E p \in Procs :
    /\ proc[p].op = "stateful"
    /\ proc[p].pc = "done"
    /\ proc[p].result \in {"OverrideError", "EvmError"}
    /\ Executed(p) >= 1
    /\ proc[p].response = << >>

\* The state of engine a is still in engine b: no committed transaction has
\* been undone, block number and timestamp have not gone back, and every
\* account and storage slot a held is held by b.
NotRolledBack(a, b) ==
  /\ b.committed = a.committed
  /\ b.block >= a.block
  /\ b.timestamp >= a.timestamp
  /\ \A x \in Addrs :
       a.accounts[x] # None =>
         /\ b.accounts[x] # None
         /\ DOMAIN a.accounts[x][1].storage \subseteq DOMAIN b.accounts[x][1].storage

ValidationErrors ==
  {"MultipleChainIdsError", "NoBlockNumberError", "InvalidBlockNumbersError"}

\* C15: a stateful run that fails at element i rolls nothing back. The
\* failing step keeps what the elements before i left in the session's
\* engine (committed transactions, block number, timestamp, overridden
\* accounts), a validation failure leaves the engine exactly as it was, and
\* the steps by which the next run reaches its loop (the request's arrival,
\* get_mut, lock) do not change the engine: the next run starts from it.
C15_FailedRunKeepsSessionState ==
  [][\A p \in Procs :
       /\ (proc[p].pc = "loop" /\ proc'[p].result \in RunErrors)
            => /\ evms'[proc[p].param] # None
               /\ NotRolledBack(session_evm(p), evms'[proc[p].param][1])
               /\ proc'[p].result \in ValidationErrors => evms' = evms
       /\ (proc[p].op = "stateful" /\ proc[p].pc \in {"done", "get_mut", "lock"}
             /\ proc[p].param \in Ids /\ proc'[p] # proc[p])
            => evms'[proc[p].param] = evms[proc[p].param]]_vars

\* C15 witness: a run has failed at an element after its first, and the
\* session's engine holds a committed transaction, an overridden account
\* and an advanced block and timestamp.
C15_Witness ==
  \E p \in Procs :
    /\ proc[p].op = "stateful"
    /\ proc[p].pc = "done"
    /\ proc[p].result \in RunErrors
    /\ Executed(p) >= 1
    /\ evms[proc[p].param] # None
    /\ session_evm(p).committed >= 1
    /\ session_evm(p).block > 0
    /\ session_evm(p).timestamp >= BLOCK_TIME
    /\ session_evm(p).accounts["X"] # None

\* C16: a stateful run whose first element's chainId differs from the chain
\* id of the session's engine returns IncorrectChainIdError before any
\* element is processed and leaves every engine as it was; the chain id of
\* a session's engine is the fork's from creation on and never changes.
C16_ChainMismatchBeforeAnyElement ==
  /\ [](\A p \in Procs :
          (proc[p].op = "stateful" /\ proc[p].result = "IncorrectChainIdError")
            => (proc[p].pc = "done" /\ Executed(p) = 0 /\ proc[p].response = << >>))
  /\ [](\A id \in Ids : evms[id] # None => evms[id][1].chain_id = ForkChainId)
  /\ [][/\ \A p \in Procs :
            ( /\ proc[p].pc = "lock"
              /\ proc'[p] # proc[p]
              /\ session_evm(p).chain_id # proc[p].first_chain_id )
              => /\ proc'[p].pc = "done"
                 /\ proc'[p].result = "IncorrectChainIdError"
                 /\ evms' = evms
        /\ \A id \in Ids :
            (evms[id] # None /\ evms'[id] # None)
              => evms'[id][1].chain_id = evms[id][1].chain_id]_vars

\* C16 witness: a run with another chain id has been refused on a session
\* that holds the committed transaction of an earlier run.
C16_Witness ==
  \E p \in Procs :
    /\ proc[p].op = "stateful"
    /\ proc[p].pc = "done"
    /\ proc[p].result = "IncorrectChainIdError"
    /\ evms[proc[p].param] # None
    /\ session_evm(p).committed >= 1

C18_StartSessionRegistry ==
  [][\A p \in Procs :
       /\ (CanStart(p) /\ reqs' # reqs /\ proc'[p].op = "new" /\ proc'[p].pc = "done")
            => /\ proc'[p].result = "EvmCreateError"
               /\ evms' = evms
               /\ next_id' = next_id
       /\ (proc[p].pc = "insert" /\ proc'[p] # proc[p])
            => /\ proc'[p].result = "Ok"
               /\ proc'[p].param \in Ids
               /\ proc'[p].param > next_id
               /\ evms[proc'[p].param] = None
               /\ own[p] # None
               /\ evms'[proc'[p].param] = own[p]
               /\ \A id \in Ids \ {proc'[p].param} : evms'[id] = evms[id]]_vars

\* C18 witness: one start-session has failed in Evm::new and another has
\* registered a second session next to the first.
C18_Witness ==
  \E p, q \in Procs :
    /\ p # q
    /\ proc[p].op = "new"
    /\ proc[p].result = "EvmCreateError"
    /\ proc[q].op = "new"
    /\ proc[q].result = "Ok"
    /\ proc[q].param = 2
    /\ evms[1] # None
    /\ evms[2] # None

\* What iteration i of the stateful loop of handler p does with transaction
\* tx when the registry is registry.
stateful_step_in(registry, p, tx, db_ok, outcome) ==
  stateful_body(registry[proc[p].param][1], tx, proc[p].first_chain_id,
                proc[p].first_block_number, db_ok, outcome)

\* States another session's entry may be in: absent, fresh, used.
OtherEntries ==
  {None, Some(new_evm(0)),
   Some([new_evm(1) EXCEPT !.timestamp = BLOCK_TIME, !.committed = 1,
                            !.accounts["X"] = Some([info |-> DefaultInfo,
                                                    storage |-> (1 :> 1)])])}

\* C19: sessions are isolated. A step of a run on session A leaves the
\* entry of every other session B (block number, timestamp, accounts,
\* storage, committed transactions) exactly as it was, and what an element
\* of a run on A does (its error, its result, the engine it leaves) is the
\* same whatever state B's entry is in.
C19_SessionsIsolated ==
  /\ [][\A p \in Procs :
          (proc[p].pc = "loop" /\ proc'[p] # proc[p])
            => \A id \in Ids \ {proc[p].param} : evms'[id] = evms[id]]_vars
  /\ [](\A p \in Procs : proc[p].pc = "loop" =>
          \A id \in Ids \ {proc[p].param}, e \in OtherEntries, tx \in Txs :
            IsElement(p, tx) =>
              \A db_ok \in BOOLEAN, outcome \in Outcomes :
                stateful_step_in([evms EXCEPT ![id] = e], p, tx, db_ok, outcome)
                  = stateful_step_in(evms, p, tx, db_ok, outcome))

\* C19 witness: a run on one session has committed a transaction and
\* overridden an account while another session is registered and untouched.
C19_Witness ==
  \E p \in Procs, id \in Ids :
    /\ proc[p].op = "stateful"
    /\ proc[p].result = "Ok"
    /\ id # proc[p].param
    /\ evms[proc[p].param] # None
    /\ session_evm(p).committed >= 1
    /\ session_evm(p).accounts["X"] # None
    /\ evms[id] # None
    /\ evms[id][1].committed = 0
    /\ evms[id][1].accounts["X"] = None

\* C20: a transaction that reverts is not an error. An element whose
\* transaction reverts ends as the same element would with a transaction
\* that does not, error or none, and when there is none its result has
\* success = FALSE where the other has TRUE; the loop goes on to the next
\* element. Every element that ends without error appends its one result,
\* so a run that returns Ok returns one result per transaction, in the
\* order of the request.
C20_RevertIsNotAnError ==
  /\ [](\A p \in Procs : proc[p].pc = "loop" =>
          \A tx \in Txs : IsElement(p, tx) =>
            \A db_ok \in BOOLEAN :
              LET rev == stateful_step(p, tx, db_ok, "reverted")
                  ok == stateful_step(p, tx, db_ok, "ok")
              IN /\ rev.err = ok.err
                 /\ rev.err = "" =>
                      /\ ~rev.success
                      /\ ok.success
                      /\ after_element(p, rev).result \in {"", "Ok"}
                      /\ after_element(p, rev).pc =
                           IF proc[p].i + 1 < proc[p].len THEN "loop" ELSE "done")
  /\ [](\A p \in Procs :
          (proc[p].op = "stateful" /\ proc[p].pc = "loop")
            => Len(proc[p].response) = proc[p].i)
  /\ [][\A p \in Procs :
          (proc[p].pc = "loop" /\ proc'[p] # proc[p] /\ proc'[p].result \notin RunErrors)
            => LET success == evms'[proc[p].param][1].committed = session_evm(p).committed + 1
               IN /\ proc'[p].i = proc[p].i + 1
                  /\ proc'[p].response = Append(proc[p].response, success)
                  /\ proc'[p].pc = "done" =>
                       /\ proc'[p].result = "Ok"
                       /\ Len(proc'[p].response) = proc[p].len]_vars

\* C20 witness: a run of two transactions, the first reverted and the second
\* not, has returned Ok with the results FALSE, TRUE.
C20_Witness ==
  \E p \in Procs :
    /\ proc[p].op = "stateful"
    /\ proc[p].pc = "done"
    /\ proc[p].result = "Ok"
    /\ proc[p].response = <<FALSE, TRUE>>
    /\ evms[proc[p].param] # None
    /\ session_evm(p).committed = 1

\* The info of an account of an accounts table; the default when there is none.
info_of(accounts, address) ==
  IF accounts[address] = None THEN DefaultInfo ELSE accounts[address][1].info

\* C21: override_account changes only what the override carries. After a
\* call that returned Ok, each of balance, nonce and code that was absent
\* has the value read from the engine, the default for an address that did
\* not exist, and each that was present has the value given; with no
\* storage override every slot of the address is as it was; the accounts at
\* other addresses are untouched. A call on an address that does not exist
\* fails only as a call on an existing one does: when the account cannot be
\* read or the code is malformed.
C21_OverrideChangesOnlyPresentFields ==
  /\ call # None /\ call[1].ok =>
       LET c == call[1]
           old == info_of(c.before, c.address)
           new == info_of(own[1][1].accounts, c.address)
       IN /\ new.balance = IF c.balance = None THEN old.balance ELSE c.balance[1]
          /\ new.nonce = IF c.nonce = None THEN old.nonce ELSE c.nonce[1]
          /\ new.code = IF c.code = None THEN old.code ELSE c.code
          /\ c.state = None =>
               storage_of(own[1][1].accounts, c.address) = storage_of(c.before, c.address)
          /\ \A y \in Addrs \ {c.address} : own[1][1].accounts[y] = c.before[y]
  /\ call = None =>
       \A a \in Addrs, info \in InfoOverrides, st \in States :
         override_account(own[1][1], a, info[1], info[2], info[3],
                          IF st = None THEN None ELSE Some(StorageOverrideFrom(st[1])),
                          TRUE).ok
           = (info[3] = None \/ new_raw_checked_ok(info[3][1]))

\* C21 witness: an override carrying only a balance has been applied to an
\* account that had a nonce, code and a storage slot.
C21_Witness ==
  /\ call # None
  /\ call[1].ok
  /\ call[1].balance # None
  /\ call[1].nonce = None
  /\ call[1].code = None
  /\ call[1].state = None
  /\ call[1].before[call[1].address] # None
  /\ info_of(call[1].before, call[1].address) = OldInfo
  /\ storage_of(call[1].before, call[1].address) # EmptyMap
  /\ info_of(own[1][1].accounts, call[1].address).balance # OldInfo.balance

\* C22: of two end-session calls for the same id, at most one returns
\* success; the other returns StateNotFound.
C22_ConcurrentEndOnlyOneSucceeds ==
  \A p, q \in Procs :
    ( /\ p # q
      /\ proc[p].op = "end" /\ proc[q].op = "end"
      /\ proc[p].pc = "done" /\ proc[q].pc = "done"
      /\ proc[p].param = proc[q].param )
      => ~(proc[p].result = "Ok" /\ proc[q].result = "Ok")

====
